---- MODULE Spec2Model ----
(***************************************************************************)
(* State-machine model of the subscription client of go-graphql-client    *)
(* (subscription.go): the supervisor loop RunWithContext, the sessions     *)
(* (SubscriptionContext) with their read loops, the registry of            *)
(* subscriptions and the public operations Subscribe/Exec, Unsubscribe,    *)
(* Close and context cancellation.                                         *)
(*                                                                         *)
(* Goroutines are modelled as processes with a program counter:            *)
(*   sup               the goroutine that called RunWithContext            *)
(*   sessions[s].rd    the read loop of session s (SubscriptionContext.run)*)
(*   sessions[s].ex    a message dispatch goroutine of session s           *)
(*                     (go execMessage(), only when syncMode is false)     *)
(*   user              a caller inside Subscribe/Exec (doRaw)              *)
(* Unsubscribe, Close and the cancellation of the caller's context are     *)
(* calls made by further goroutines.                                       *)
(*                                                                         *)
(* errorChan is unbuffered: a sender stays blocked (pc = "send") until the *)
(* supervisor's select receives its value.                                 *)
(***************************************************************************)
EXTENDS Integers, Sequences, FiniteSets, TLC

\* ---------------------------------------------------------------- bounds
MaxSubs == 1
MaxSessions == 2
MaxFrames == 2
MaxDisc == 2
MaxCalls == 2
MaxCache == 3
MaxIds == 3
MaxOps == 4

Keys == 1..MaxSubs
SessionIds == 1..MaxSessions
NilSession == 0

\* ------------------------------------------------------ program constants
scStatusInitializing == 0
scStatusRunning == 1
scStatusClosing == 2

SubscriptionWaiting == 0
SubscriptionRunning == 1
SubscriptionUnsubscribed == 2

StatusNormalClosure == 1000
StatusNoStatusRcvd == 1005
StatusAbnormalClosure == 1006
StatusInternalError == 1011
StatusBadGateway == 1014
StatusInvalidMessage == 4400
StatusUnauthorized == 4401
StatusConnectionInitialisationTimeout == 4408
StatusSubscriberAlreadyExists == 4409
StatusTooManyInitialisationRequests == 4429
StatusGoingAway == 1001
StatusUnknown == -1

\* close statuses a read error can carry (GetCloseStatus), -1 when unknown
CloseStatuses ==
  { StatusUnknown, StatusNormalClosure, StatusGoingAway, StatusNoStatusRcvd,
    StatusAbnormalClosure, StatusInternalError, StatusBadGateway,
    StatusInvalidMessage, StatusUnauthorized,
    StatusConnectionInitialisationTimeout, StatusSubscriberAlreadyExists,
    StatusTooManyInitialisationRequests }

\* values travelling on errorChan
ErrRetry == "errRetry"
ErrSubscriptionStopped == "ErrSubscriptionStopped"
ErrOther == "error"
ErrInitTimeout == "CloseError4408"
ErrorValues == {ErrRetry, ErrSubscriptionStopped, ErrOther, ErrInitTimeout}

\* configurations of WithRetryStatusCodes: a sequence of ranges, a range is
\* <<code>> or <<low, high>> (parseInt32Ranges)
RetryCodeConfigs ==
  { <<>>, << <<StatusInvalidMessage>> >>,
    << <<StatusNormalClosure, StatusAbnormalClosure>> >> }

VARIABLES
  cfg,              \* options set by the With*/On* builders before Run
  clientStatus,     \* SubscriptionClient.clientStatus
  rawSubscriptions, \* SubscriptionClient.rawSubscriptions (the registry)
  currentSession,   \* SubscriptionClient.currentSession, 0 is nil
  sessions,         \* every SubscriptionContext created so far
  nSessions,        \* number of SubscriptionContexts created
  sup,              \* the goroutine inside RunWithContext
  ctx,              \* the context of RunWithContext and sc.cancel
  user,             \* a caller inside doRaw
  nextKey,          \* next fresh subscription id (uuid.New)
  panicked,         \* a goroutine hit a nil pointer dereference
  obs,              \* what the callers of Close and Unsubscribe have seen
  prev,             \* the goroutine of an earlier Run that a later Run displaced
  stats             \* defaultWebSocketStats and maxClosedConnectionCacheSize

vars ==
  << cfg, clientStatus, rawSubscriptions, currentSession, sessions, nSessions,
     sup, ctx, user, nextKey, panicked, obs, prev, stats >>

\* ---------------------------------------------------------------- maps
EmptyMap == [k \in {} |-> 0]

Put(m, k, v) == [x \in DOMAIN m \cup {k} |-> IF x = k THEN v ELSE m[x]]

Delete(m, k) == [x \in DOMAIN m \ {k} |-> m[x]]

Inc(n, max) == IF n < max THEN n + 1 ELSE max

\* ------------------------------------------------------- data structures
\* Subscription: id is the session id, key the stable registry key.  An id
\* is a pair <<key, n>>: n = 0 for the id minted by doRaw (id = key) and
\* n = the number of the session whose Clone minted it (uuid.NewString).
\* payload stands for the payload and the handler, both fixed by doRaw.
NewSubscription(k) ==
  [id |-> <<k, 0>>, key |-> k, status |-> SubscriptionWaiting, payload |-> k]

\* Clone that keeps the id of the registry entry
CloneSameId(sub, n) ==
  [ id |-> sub.id, key |-> sub.key, status |-> SubscriptionWaiting,
    payload |-> sub.payload ]

Clone(sub, n) ==
  [ id |-> <<sub.key, n>>, key |-> sub.key, status |-> SubscriptionWaiting,
    payload |-> sub.payload ]

NoMsg == [type |-> "none", key |-> 0]

\* a goroutine: reader pcs none/run/send/check/done, dispatcher pcs
\* none/pending/send/check, keep-alive pcs none/run/send/done.  val is the value it is sending on errorChan,
\* after what it does once the value is received (exit or check), msg the
\* message being dispatched, matched whether the close status it last read
\* matched a configured retry code.
IdleProc ==
  [ pc |-> "none", val |-> "none", after |-> "none", msg |-> NoMsg,
    matched |-> FALSE ]

BlankSession ==
  [ conn |-> FALSE,            \* websocketConn # nil
    ack |-> FALSE,             \* acknowledged
    cancelled |-> FALSE,       \* the session's own cancel was called
    orphan |-> FALSE,          \* its context descends from the context of an
                               \* earlier Run that sc.cancel no longer reaches
    subs |-> EmptyMap,         \* subscriptions, keyed by key
    sent |-> [k \in Keys |-> 0],   \* subscribe frames written, per key
    stops |-> [k \in Keys |-> 0],  \* unsubscribe frames written, per key
    disc |-> 0,                \* onDisconnected calls made for this session
    pings |-> 0,               \* pings made by the keep-alive goroutine
    rd |-> IdleProc,
    ex |-> IdleProc,
    ka |-> IdleProc ]

\* the part of the state that close() and the protocol callbacks work on
World ==
  [ status |-> clientStatus, raw |-> rawSubscriptions, ss |-> sessions,
    ctx |-> ctx ]

CtxDoneIn(c) == c.cancelled \/ c.parent

CtxDone == CtxDoneIn(ctx)

\* <-sc.Done() of session s: its context is a child of the Run context
SessionDone(s) == sessions[s].cancelled \/ (~sessions[s].orphan /\ CtxDone)

\* Send with the nil check inverted
SendInverted(se) == ~se.conn

\* SubscriptionContext.Send: writes on the websocket if there is one and
\* returns nil without writing otherwise; TRUE iff a frame is written
Send(se) == se.conn

\* SubscriptionContext.Close
SessionClose(se) ==
  [se EXCEPT !.conn = FALSE,
             !.disc = IF se.conn THEN Inc(@, MaxDisc) ELSE @,
             !.cancelled = TRUE]

\* SubscriptionContext.GetSubscriptionsLength({Running, Waiting})
ActiveLength(se) ==
  Cardinality({k \in DOMAIN se.subs :
                 se.subs[k].status \in {SubscriptionRunning, SubscriptionWaiting}})

\* ----------------------------------------------------- protocol strategy
\* protocol.Subscribe: send the start/subscribe frame, mark the entry Running
ProtocolSubscribe(se, sub) ==
  [se EXCEPT !.sent[sub.key] = IF Send(se) THEN Inc(@, MaxFrames) ELSE @,
             !.subs = Put(@, sub.key, [sub EXCEPT !.status = SubscriptionRunning])]

\* protocol.Unsubscribe that sends nothing
ProtocolUnsubscribeSilent(se, sub) == se

\* protocol.Unsubscribe: send the stop/complete frame
ProtocolUnsubscribe(se, sub) ==
  [se EXCEPT !.stops[sub.key] = IF Send(se) THEN Inc(@, MaxFrames) ELSE @]

RECURSIVE SubscribeWaiting(_, _)
SubscribeWaiting(se, ks) ==
  IF ks = {} THEN se
  ELSE LET k == CHOOSE x \in ks : TRUE
       IN  SubscribeWaiting(
             IF se.subs[k].status = SubscriptionWaiting
               THEN ProtocolSubscribe(se, se.subs[k]) ELSE se,
             ks \ {k})

\* connection_ack: acknowledged = true, onConnected, subscribe every Waiting
OnConnectionAck(se) ==
  LET acked == [se EXCEPT !.ack = TRUE]
  IN  SubscribeWaiting(acked, DOMAIN acked.subs)

\* ------------------------------------------------------------- close()
RECURSIVE UnsubscribeAll(_, _)
UnsubscribeAll(se, ks) ==
  IF ks = {} THEN se
  ELSE LET k == CHOOSE x \in ks : TRUE
           removed == [se EXCEPT !.subs = Delete(@, k)]
       IN  UnsubscribeAll(
             IF se.subs[k].status = SubscriptionRunning
               THEN ProtocolUnsubscribe(removed, se.subs[k]) ELSE removed,
             ks \ {k})

\* close(session) without the test of the status and of the websocket
ClientCloseUnguarded(w, s) ==
  LET w1 == [w EXCEPT !.status = scStatusClosing,
                      !.ctx.cancelled = IF w.ctx.cancelSet THEN TRUE ELSE @]
  IN  IF s = NilSession THEN w1
      ELSE [w1 EXCEPT !.ss[s] = SessionClose(UnsubscribeAll(@, DOMAIN @.subs))]

\* SubscriptionClient.close(session), s = 0 for a nil session
ClientClose(w, s) ==
  IF w.status = scStatusClosing THEN w
  ELSE LET w1 == [w EXCEPT !.status = scStatusClosing,
                           !.ctx.cancelled = IF w.ctx.cancelSet THEN TRUE ELSE @]
       IN  IF s = NilSession THEN w1
           ELSE IF ~w1.ss[s].conn THEN w1
           ELSE [w1 EXCEPT !.ss[s] =
                   SessionClose(UnsubscribeAll(@, DOMAIN @.subs))]

\* SubscriptionClient.checkSubscriptionStatuses(session)
CheckSubscriptionStatuses(w, s) ==
  IF cfg.exitWhenNoSubscription /\ ActiveLength(w.ss[s]) = 0
    THEN ClientClose(w, s) ELSE w

\* which of the calls made by close() on a live session fail with an error
\* other than net.ErrClosed and context.Canceled: some protocol.Unsubscribe,
\* protocol.Close, session.Close
NoFailure == [unsub |-> FALSE, proto |-> FALSE, close |-> FALSE]

Failures ==
  IF cfg.failWrites THEN [unsub : BOOLEAN, proto : BOOLEAN, close : BOOLEAN]
  ELSE {NoFailure}

\* close(session) goes as far as the teardown of a live websocket
TearsDown(w, s) ==
  /\ w.status # scStatusClosing
  /\ s # NilSession
  /\ w.ss[s].conn

\* the failures of f that can happen in close(session): an unsubscribe can
\* fail only if an entry is Running
Effective(w, s, f) ==
  IF TearsDown(w, s)
    THEN [f EXCEPT !.unsub = @ /\ \E k \in DOMAIN w.ss[s].subs :
                                    w.ss[s].subs[k].status = SubscriptionRunning]
    ELSE NoFailure

\* what close(session) returns: the structured Error when unsubscribeErrors
\* is not empty, nil otherwise
CloseReturn(w, s, f) ==
  IF Effective(w, s, f).unsub THEN "Error" ELSE "nil"

Commit(w) ==
  /\ clientStatus' = w.status
  /\ rawSubscriptions' = w.raw
  /\ sessions' = w.ss
  /\ ctx' = w.ctx

\* ----------------------------------------------------------------- Init
Configs ==
  [ onError : BOOLEAN,                 \* OnError callback registered
    retryCodes : RetryCodeConfigs,     \* WithRetryStatusCodes
    initTimeout : BOOLEAN,             \* connectionInitialisationTimeout > 0
    retryTimeout : BOOLEAN,            \* retryTimeout > 0
    exitWhenNoSubscription : BOOLEAN,
    syncMode : BOOLEAN,
    failWrites : BOOLEAN,              \* the websocket may fail writes and closes
    keepAlive : BOOLEAN ]              \* websocketKeepAliveInterval > 0

InitSup ==
  [ pc |-> "idle",          \* idle, connecting, refused, select, timeout_send,
                            \* returned
    subContext |-> NilSession,  \* the variable subContext of RunWithContext
    newSess |-> NilSession,     \* the session initNewSession is building
    result |-> "none",          \* none, nil, Error, retryTimeout, onError
    ev |-> "none",              \* what the last supervisor step did
    got |-> "none",             \* the value last received from errorChan
    onErr |-> FALSE,            \* onError was invoked for that value
    gotMatched |-> FALSE,       \* it came from a close matching a retry code
    preRun |-> {} ]             \* the keys registered when Run was called

InitUser == [pc |-> "idle", key |-> 0, cur |-> NilSession]

InitObs ==
  [ closed |-> 0,          \* Close calls returned since Run was last called
    closeRet |-> "none",   \* what the last of them returned and
    closeFail |-> NoFailure,   \* what failed in it
    closedKeys |-> {},     \* the keys registered when Close was called in a Run
    unsub |-> [ key |-> 0,        \* the last Unsubscribe call: its id,
                ret |-> "none",   \* what it returned,
                cur |-> NilSession,   \* the currentSession it read and
                was |-> 0 - 1 ] ]     \* the status of the entry it found

\* no earlier Run: pc is none, select, connecting or returned
InitPrev ==
  [ pc |-> "none",
    subContext |-> NilSession,   \* the variable subContext of that Run
    newSess |-> NilSession,      \* the session its initNewSession is building
    done |-> FALSE,              \* its context is cancelled
    result |-> "none" ]

\* the calls made on the statistics since the last Reset
NoCalls ==
  [ n |-> 0,             \* AddActiveConnection calls
    m |-> 0,             \* AddClosedConnection calls
    added |-> {},        \* the ids passed to AddActiveConnection
    closedArgs |-> {},   \* the ids passed to AddClosedConnection
    orderly |-> TRUE,    \* every id passed to AddClosedConnection had been
                         \* passed to AddActiveConnection before
    last |-> [op |-> "none", id |-> 0, len |-> 0] ]
                         \* the last call, its argument and the length of
                         \* the cache when it was made

\* the package variables of the connection statistics; the default cache
\* size 100 is scaled down to MaxCache
InitStats ==
  [ activeConnectionIDs |-> {},
    closedConnectionIDs |-> <<>>,
    totalClosedConnections |-> 0,
    maxClosedConnectionCacheSize |-> MaxCache,
    panicked |-> FALSE,          \* a call indexed the cache out of range
    calls |-> NoCalls ]

InitWith(C) ==
  /\ cfg \in C
  /\ clientStatus = scStatusInitializing
  /\ rawSubscriptions = EmptyMap
  /\ currentSession = NilSession
  /\ sessions = [s \in SessionIds |-> BlankSession]
  /\ nSessions = 0
  /\ sup = InitSup
  /\ ctx = [cancelSet |-> FALSE, cancelled |-> FALSE, parent |-> FALSE]
  /\ user = InitUser
  /\ nextKey = 1
  /\ panicked = FALSE
  /\ obs = InitObs
  /\ prev = InitPrev
  /\ stats = InitStats

\* ----------------------------------------------------------- supervisor
\* initNewSession that leaves the current session open
InitNewSessionNoClose(w, n) ==
  [w EXCEPT !.ss[n] =
     [BlankSession EXCEPT !.subs = [k \in DOMAIN w.raw |-> Clone(w.raw[k], n)]]]

\* initNewSession up to the call of subContext.init: close the current
\* session, clone the registry into a new SubscriptionContext numbered n
InitNewSessionPrepare(w, n) ==
  LET closed == IF currentSession # NilSession
                  THEN [w.ss EXCEPT ![currentSession] = SessionClose(@)]
                  ELSE w.ss
  IN  [w EXCEPT !.ss = [closed EXCEPT ![n] =
         [BlankSession EXCEPT !.subs = [k \in DOMAIN w.raw |-> Clone(w.raw[k], n)]]]]

\* RunWithContext up to the first subContext.init
RunWithContext ==
  /\ ~panicked
  /\ sup.pc = "idle"
  /\ nSessions < MaxSessions
  /\ LET n == nSessions + 1
         w0 == IF clientStatus = scStatusRunning
                 THEN ClientClose(World, currentSession) ELSE World
         w1 == [w0 EXCEPT !.ctx.cancelSet = TRUE, !.ctx.cancelled = FALSE]
     IN  /\ Commit(InitNewSessionPrepare(w1, n))
         /\ nSessions' = n
         /\ sup' = [sup EXCEPT !.pc = "connecting", !.newSess = n, !.ev = "start",
                               !.preRun = DOMAIN rawSubscriptions]
  /\ obs' = [obs EXCEPT !.closed = 0, !.closeRet = "none",
                        !.closeFail = NoFailure]
  /\ UNCHANGED <<cfg, currentSession, user, nextKey, panicked, prev, stats>>

\* RunWithContext has returned to its caller, who may call it again
RunReturns ==
  /\ ~panicked
  /\ sup.pc = "returned"
  /\ sup' = InitSup
  /\ UNCHANGED <<cfg, clientStatus, rawSubscriptions, currentSession, sessions,
                 nSessions, ctx, user, nextKey, panicked, obs,
                 prev, stats>>

\* a session after its init succeeded: the websocket is open, the
\* keep-alive goroutine is started when an interval is configured and the
\* caller starts the read loop
Established(se) ==
  [se EXCEPT !.conn = TRUE, !.rd.pc = "run",
             !.ka.pc = IF cfg.keepAlive THEN "run" ELSE @]

\* SubscriptionContext.init succeeds (createConn and ConnectionInit), then
\* the rest of initNewSession and `go subContext.run()`.  The assignment
\* at the retry is `subContext, err := ...` inside the case clause: it
\* declares a new variable, the subContext of the function keeps the
\* session of the first initNewSession.
InitSessionOk ==
  /\ ~panicked
  /\ sup.pc = "connecting"
  /\ ~CtxDone
  /\ LET n == sup.newSess
     IN  /\ sessions' = [sessions EXCEPT ![n] = Established(@)]
         /\ currentSession' = n
         /\ clientStatus' = scStatusRunning
         /\ sup' = [sup EXCEPT !.pc = "select", !.ev = "connected",
                               !.subContext = IF sup.subContext = NilSession
                                                THEN n ELSE @]
  /\ UNCHANGED <<cfg, rawSubscriptions, nSessions, ctx, user, nextKey, panicked, obs,
                 prev, stats>>

\* SubscriptionContext.init giving up whatever retryTimeout is
InitSessionGivesUp ==
  /\ ~panicked
  /\ sup.pc = "connecting"
  /\ LET n == sup.newSess
     IN  sessions' = [sessions EXCEPT ![n].disc = Inc(@, MaxDisc)]
  /\ sup' = [sup EXCEPT !.pc = "returned", !.result = "retryTimeout",
                        !.ev = "giveup"]
  /\ UNCHANGED <<cfg, clientStatus, rawSubscriptions, currentSession, nSessions,
                 ctx, user, nextKey, panicked, obs, prev, stats>>

\* SubscriptionContext.init gives up: retryTimeout > 0 has elapsed
InitSessionTimeout ==
  /\ ~panicked
  /\ sup.pc = "connecting"
  /\ cfg.retryTimeout
  /\ LET n == sup.newSess
     IN  sessions' = [sessions EXCEPT ![n].disc = Inc(@, MaxDisc)]
  /\ sup' = [sup EXCEPT !.pc = "returned", !.result = "retryTimeout",
                        !.ev = "giveup"]
  /\ UNCHANGED <<cfg, clientStatus, rawSubscriptions, currentSession, nSessions,
                 ctx, user, nextKey, panicked, obs,
                 prev, stats>>

\* select: case <-ctx.Done()
SelectCtxDone ==
  /\ ~panicked
  /\ sup.pc = "select"
  /\ CtxDone
  /\ Commit(ClientClose(World, sup.subContext))
  /\ \E f \in Failures :
       sup' = [sup EXCEPT !.pc = "returned", !.ev = "ctxDone",
                          !.result = CloseReturn(World, sup.subContext, f)]
  /\ UNCHANGED <<cfg, currentSession, nSessions, user, nextKey, panicked, obs,
                 prev, stats>>

\* the goroutine `who` of session s is blocked sending on errorChan
Sending(s, who) == sessions[s][who].pc = "send"

SomeSender == \E s \in SessionIds, who \in {"rd", "ex", "ka"} : Sending(s, who)

\* the sender continues after its value was received
Released(p) ==
  [p EXCEPT !.pc = IF p.after = "check" THEN "check" ELSE "done",
            !.val = "none", !.after = "none", !.matched = FALSE]

\* select: case e := <-sc.errorChan
SelectError(s, who) ==
  /\ ~panicked
  /\ sup.pc = "select"
  /\ Sending(s, who)
  /\ LET e == sessions[s][who].val
         w == [World EXCEPT !.ss[s][who] = Released(@)]
         n == nSessions + 1
         got == [sup EXCEPT !.got = e, !.gotMatched = sessions[s][who].matched]
     IN  IF clientStatus = scStatusClosing THEN
           /\ Commit(w)
           /\ sup' = [got EXCEPT !.pc = "returned", !.result = "nil",
                                 !.ev = "closing", !.onErr = FALSE]
           /\ UNCHANGED nSessions
         ELSE IF e = ErrSubscriptionStopped THEN
           /\ Commit(ClientClose(w, sup.subContext))
           /\ \E f \in Failures :
                sup' = [got EXCEPT !.pc = "returned", !.ev = "stopped",
                                   !.result = CloseReturn(w, sup.subContext, f),
                                   !.onErr = FALSE]
           /\ UNCHANGED nSessions
         ELSE \E ret \in IF e # ErrRetry /\ cfg.onError
                           THEN {"nil", "error"} ELSE {"skip"} :
           IF ret = "error" THEN
             /\ Commit(ClientClose(w, sup.subContext))
             /\ sup' = [got EXCEPT !.pc = "returned", !.result = "onError",
                                   !.ev = "fatal", !.onErr = TRUE]
             /\ UNCHANGED nSessions
           ELSE
             /\ nSessions < MaxSessions
             /\ Commit(InitNewSessionPrepare(w, n))
             /\ nSessions' = n
             /\ sup' = [got EXCEPT !.pc = "connecting", !.newSess = n,
                                   !.ev = "retry",
                                   !.onErr = (ret = "nil")]
  /\ UNCHANGED <<cfg, currentSession, user, nextKey, panicked, obs,
                 prev, stats>>

\* select: case e := <-sc.errorChan, taken to the retry while the server
\* accepts no further connection: initNewSession closes the current session
\* and subContext.init stays in its loop of failing createConn calls
SelectErrorRefused(s, who) ==
  /\ ~panicked
  /\ sup.pc = "select"
  /\ Sending(s, who)
  /\ nSessions = MaxSessions
  /\ clientStatus # scStatusClosing
  /\ sessions[s][who].val # ErrSubscriptionStopped
  /\ LET e == sessions[s][who].val
         w == [World EXCEPT !.ss[s][who] = Released(@)]
         closed == IF currentSession # NilSession
                     THEN [w EXCEPT !.ss[currentSession] = SessionClose(@)]
                     ELSE w
     IN  /\ Commit(closed)
         /\ sup' = [sup EXCEPT !.pc = "refused", !.newSess = NilSession,
                               !.got = e,
                               !.gotMatched = sessions[s][who].matched,
                               !.ev = "retry",
                               !.onErr = (e # ErrRetry /\ cfg.onError)]
  /\ UNCHANGED <<cfg, currentSession, nSessions, user, nextKey, panicked, obs,
                 prev, stats>>

\* select: default.  The init timeout has passed without acknowledgement:
\* the supervisor itself sends the close error on the unbuffered errorChan
SelectInitTimeout ==
  /\ ~panicked
  /\ sup.pc = "select"
  /\ ~CtxDone
  /\ ~SomeSender
  /\ cfg.initTimeout
  /\ currentSession # NilSession
  /\ ~sessions[currentSession].ack
  /\ sup' = [sup EXCEPT !.pc = "timeout_send", !.ev = "initTimeout"]
  /\ UNCHANGED <<cfg, clientStatus, rawSubscriptions, currentSession, sessions,
                 nSessions, ctx, user, nextKey, panicked, obs,
                 prev, stats>>

\* ------------------------------------------------- a Run called again
\* RunWithContext called by another goroutine while the Run of `sup` is in
\* its select and the client is Running: close(currentSession) cancels the
\* context of the earlier Run through sc.cancel, then sc.cancel is
\* overwritten with the cancel of the new context and initNewSession builds
\* the next session.  The earlier Run goes on as `prev`; the sessions made
\* under its context are done with it.
RunAgain ==
  /\ ~panicked
  /\ sup.pc = "select"
  /\ clientStatus = scStatusRunning
  /\ prev.pc = "none"
  /\ nSessions < MaxSessions
  /\ LET n == nSessions + 1
         w0 == ClientClose(World, currentSession)
         w1 == [w0 EXCEPT
                  !.ctx = [cancelSet |-> TRUE, cancelled |-> FALSE, parent |-> FALSE],
                  !.ss = [s \in SessionIds |->
                            IF s <= nSessions /\ CtxDoneIn(w0.ctx)
                              THEN [w0.ss[s] EXCEPT !.cancelled = TRUE]
                              ELSE w0.ss[s]]]
     IN  /\ Commit(InitNewSessionPrepare(w1, n))
         /\ nSessions' = n
         /\ prev' = [pc |-> "select", subContext |-> sup.subContext,
                     newSess |-> NilSession,
                     done |-> CtxDoneIn(w0.ctx), result |-> "none"]
         /\ sup' = [InitSup EXCEPT !.pc = "connecting", !.newSess = n,
                                   !.ev = "start",
                                   !.preRun = DOMAIN rawSubscriptions]
  /\ obs' = [obs EXCEPT !.closed = 0, !.closeRet = "none",
                        !.closeFail = NoFailure]
  /\ UNCHANGED <<cfg, currentSession, user, nextKey, panicked, stats>>

\* the earlier Run, select: case <-ctx.Done().  close() calls sc.cancel,
\* which by now is the cancel of the later Run's context.
PrevSelectCtxDone ==
  /\ ~panicked
  /\ prev.pc = "select"
  /\ prev.done
  /\ Commit(ClientClose(World, prev.subContext))
  /\ \E f \in Failures :
       prev' = [prev EXCEPT !.pc = "returned",
                            !.result = CloseReturn(World, prev.subContext, f)]
  /\ UNCHANGED <<cfg, currentSession, nSessions, sup, user, nextKey, panicked,
                 obs, stats>>

\* the earlier Run, select: case e := <-sc.errorChan.  errorChan belongs to
\* the client: the earlier Run receives what a read loop of the later Run
\* sends.  Its initNewSession closes the current session and then retries
\* under its own cancelled context, where no connection can be made.
PrevSelectError(s, who) ==
  /\ ~panicked
  /\ prev.pc = "select"
  /\ Sending(s, who)
  /\ LET e == sessions[s][who].val
         w == [World EXCEPT !.ss[s][who] = Released(@)]
     IN  IF clientStatus = scStatusClosing THEN
           /\ Commit(w)
           /\ prev' = [prev EXCEPT !.pc = "returned", !.result = "nil"]
         ELSE IF e = ErrSubscriptionStopped THEN
           /\ Commit(ClientClose(w, prev.subContext))
           /\ \E f \in Failures :
                prev' = [prev EXCEPT !.pc = "returned",
                           !.result = CloseReturn(w, prev.subContext, f)]
         ELSE \E ret \in IF e # ErrRetry /\ cfg.onError
                           THEN {"nil", "error"} ELSE {"skip"} :
           IF ret = "error" THEN
             /\ Commit(ClientClose(w, prev.subContext))
             /\ prev' = [prev EXCEPT !.pc = "returned", !.result = "onError"]
           ELSE
             /\ Commit([w EXCEPT !.ss =
                   IF currentSession # NilSession
                     THEN [w.ss EXCEPT ![currentSession] = SessionClose(@)]
                     ELSE w.ss])
             /\ prev' = [prev EXCEPT
                   !.pc = IF cfg.retryTimeout THEN "returned" ELSE "connecting",
                   !.result = IF cfg.retryTimeout THEN "retryTimeout" ELSE @]
  /\ UNCHANGED <<cfg, currentSession, nSessions, sup, user, nextKey, panicked,
                 obs, stats>>

\* RunWithContext called by another goroutine while the Run of `sup` is
\* inside initNewSession and the client is not Running: nothing is closed,
\* sc.cancel is overwritten with the cancel of the new context and
\* initNewSession builds one more session.  The earlier Run goes on as
\* `prev` with the session it is connecting; the sessions made under its
\* context are done if that context is, and out of reach of sc.cancel
\* otherwise.
RunWhileConnecting ==
  /\ ~panicked
  /\ sup.pc = "connecting"
  /\ clientStatus # scStatusRunning
  /\ prev.pc = "none"
  /\ nSessions < MaxSessions
  /\ LET n == nSessions + 1
         w1 == [World EXCEPT
                  !.ctx = [cancelSet |-> TRUE, cancelled |-> FALSE, parent |-> FALSE],
                  !.ss = [s \in SessionIds |->
                            IF s > nSessions THEN sessions[s]
                            ELSE IF CtxDone
                              THEN [sessions[s] EXCEPT !.cancelled = TRUE]
                              ELSE [sessions[s] EXCEPT !.orphan = TRUE]]]
     IN  /\ Commit(InitNewSessionPrepare(w1, n))
         /\ nSessions' = n
         /\ prev' = [pc |-> "connecting", subContext |-> sup.subContext,
                     newSess |-> sup.newSess,
                     done |-> CtxDone, result |-> "none"]
         /\ sup' = [InitSup EXCEPT !.pc = "connecting", !.newSess = n,
                                   !.ev = "start",
                                   !.preRun = DOMAIN rawSubscriptions]
  /\ obs' = [obs EXCEPT !.closed = 0, !.closeRet = "none",
                        !.closeFail = NoFailure]
  /\ UNCHANGED <<cfg, currentSession, user, nextKey, panicked, stats>>

\* the earlier Run: its subContext.init succeeds under its own context,
\* then the rest of initNewSession and `go subContext.run()`
PrevInitSessionOk ==
  /\ ~panicked
  /\ prev.pc = "connecting"
  /\ prev.newSess # NilSession
  /\ ~prev.done
  /\ LET n == prev.newSess
     IN  /\ sessions' = [sessions EXCEPT ![n] = Established(@)]
         /\ currentSession' = n
         /\ clientStatus' = scStatusRunning
         /\ prev' = [prev EXCEPT !.pc = "select",
                                 !.subContext = IF prev.subContext = NilSession
                                                  THEN n ELSE @]
  /\ UNCHANGED <<cfg, rawSubscriptions, nSessions, sup, ctx, user, nextKey,
                 panicked, obs, stats>>

\* ------------------------------------------------------------ read loop
\* a close status matches a configured retry code or range
MatchesRetryCode(c, codes) ==
  \E i \in DOMAIN codes :
    \/ Len(codes[i]) = 1 /\ codes[i][1] = c
    \/ Len(codes[i]) >= 2 /\ codes[i][1] <= c /\ c <= codes[i][2]

\* the built-in switch consulted before the configured retry codes
ClassifyBuiltinFirst(c, codes) ==
  IF c \in {StatusBadGateway, StatusNoStatusRcvd} THEN "retry"
  ELSE IF c \in {StatusNormalClosure, StatusAbnormalClosure} THEN "cancel"
  ELSE IF c \in {StatusInternalError, StatusInvalidMessage,
                 StatusConnectionInitialisationTimeout,
                 StatusTooManyInitialisationRequests,
                 StatusSubscriberAlreadyExists, StatusUnauthorized}
         THEN "surface"
  ELSE IF MatchesRetryCode(c, codes) THEN "retry"
  ELSE "onError"

\* what the read loop does with a read error that carries close status c:
\* retry (send errRetry), cancel (cancel the session), surface (send the
\* error) or onError (call onError and go on reading)
ClassifyCloseStatus(c, codes) ==
  IF MatchesRetryCode(c, codes) THEN "retry"
  ELSE IF c \in {StatusBadGateway, StatusNoStatusRcvd} THEN "retry"
  ELSE IF c \in {StatusNormalClosure, StatusAbnormalClosure} THEN "cancel"
  ELSE IF c \in {StatusInternalError, StatusInvalidMessage,
                 StatusConnectionInitialisationTimeout,
                 StatusTooManyInitialisationRequests,
                 StatusSubscriberAlreadyExists, StatusUnauthorized}
         THEN "surface"
  ELSE "onError"

Reading(s) == sessions[s].rd.pc = "run"

\* the loop ends silently: <-sc.Done(), websocketConn = nil, or ReadJSON
\* failed with context.Canceled
ReadLoopExit(s) ==
  /\ ~panicked
  /\ Reading(s)
  /\ SessionDone(s) \/ ~sessions[s].conn
  /\ sessions' = [sessions EXCEPT ![s].rd.pc = "done"]
  /\ UNCHANGED <<cfg, clientStatus, rawSubscriptions, currentSession, nSessions,
                 sup, ctx, user, nextKey, panicked, obs,
                 prev, stats>>

\* a read loop that ends on EOF without sending anything
ReadEOFSilent(s) ==
  /\ ~panicked
  /\ Reading(s)
  /\ sessions' = [sessions EXCEPT ![s].rd.pc = "done"]
  /\ UNCHANGED <<cfg, clientStatus, rawSubscriptions, currentSession, nSessions,
                 sup, ctx, user, nextKey, panicked, obs, prev, stats>>

\* ReadJSON failed with EOF, a closed connection or a connection reset
ReadEOF(s) ==
  /\ ~panicked
  /\ Reading(s)
  /\ sessions' = [sessions EXCEPT ![s].rd =
       [@ EXCEPT !.pc = "send", !.val = ErrRetry, !.after = "exit"]]
  /\ UNCHANGED <<cfg, clientStatus, rawSubscriptions, currentSession, nSessions,
                 sup, ctx, user, nextKey, panicked, obs,
                 prev, stats>>

\* ReadJSON failed with an error whose close status is c
ReadCloseStatus(s, c) ==
  /\ ~panicked
  /\ Reading(s)
  /\ sessions[s].conn
  /\ LET class == ClassifyCloseStatus(c, cfg.retryCodes)
         rd == [sessions[s].rd EXCEPT
                  !.matched = MatchesRetryCode(c, cfg.retryCodes)]
     IN  CASE class = "retry" ->
                sessions' = [sessions EXCEPT ![s].rd =
                  [rd EXCEPT !.pc = "send", !.val = ErrRetry, !.after = "exit"]]
           [] class = "cancel" ->
                sessions' = [sessions EXCEPT ![s].cancelled = TRUE,
                                             ![s].rd = [rd EXCEPT !.pc = "done"]]
           [] class = "surface" ->
                sessions' = [sessions EXCEPT ![s].rd =
                  [rd EXCEPT !.pc = "send", !.val = ErrOther, !.after = "exit"]]
           [] class = "onError" ->
                \E ret \in IF cfg.onError THEN {"nil", "error"} ELSE {"nil"} :
                  IF ret = "error"
                    THEN sessions' = [sessions EXCEPT
                           ![s].cancelled = TRUE,
                           ![s].rd = [rd EXCEPT !.pc = "done"]]
                    ELSE sessions' = [sessions EXCEPT ![s].rd = rd]
  /\ UNCHANGED <<cfg, clientStatus, rawSubscriptions, currentSession, nSessions,
                 sup, ctx, user, nextKey, panicked, obs,
                 prev, stats>>

\* ------------------------------------------------------------ keep-alive
\* the keep-alive goroutine of session s is in its select
Pinging(s) == sessions[s].ka.pc = "run"

\* startWebsocketKeepAlive: the ticker fires and c.Ping() succeeds; c is the
\* websocket the session was established with
Ping(s) ==
  /\ ~panicked
  /\ Pinging(s)
  /\ sessions[s].conn
  /\ sessions' = [sessions EXCEPT ![s].pings = Inc(@, MaxFrames)]
  /\ UNCHANGED <<cfg, clientStatus, rawSubscriptions, currentSession, nSessions,
                 sup, ctx, user, nextKey, panicked, obs, prev, stats>>

\* the ticker fires and c.Ping() fails, because the line is broken or
\* because the websocket was closed while the ping was under way: the
\* goroutine sends errRetry and returns after the send
PingFails(s) ==
  /\ ~panicked
  /\ Pinging(s)
  /\ sessions' = [sessions EXCEPT
       ![s].pings = Inc(@, MaxFrames),
       ![s].ka = [@ EXCEPT !.pc = "send", !.val = ErrRetry, !.after = "exit"]]
  /\ UNCHANGED <<cfg, clientStatus, rawSubscriptions, currentSession, nSessions,
                 sup, ctx, user, nextKey, panicked, obs, prev, stats>>

\* case <-sc.Done(): the goroutine returns
KeepAliveDone(s) ==
  /\ ~panicked
  /\ Pinging(s)
  /\ SessionDone(s)
  /\ sessions' = [sessions EXCEPT ![s].ka.pc = "done"]
  /\ UNCHANGED <<cfg, clientStatus, rawSubscriptions, currentSession, nSessions,
                 sup, ctx, user, nextKey, panicked, obs, prev, stats>>

\* ------------------------------------------------------ message dispatch
\* messages the server may send now on the websocket of session s
ServerMessages(s) ==
  LET se == sessions[s]
      known == {k \in DOMAIN se.subs : se.sent[k] > 0}
  IN  (IF ~se.ack /\ se.ex.msg.type # "ack" THEN {[type |-> "ack", key |-> 0]}
       ELSE {})
      \cup {[type |-> "data", key |-> k] : k \in known}
      \cup {[type |-> "complete", key |-> k] : k \in known}

\* what a subscription handler may return
HandlerReturns == {"none", ErrSubscriptionStopped, ErrOther}

\* protocol.OnMessage on session s; ret is what the handler returns
OnMessage(w, s, m) ==
  CASE m.type = "ack" -> [w EXCEPT !.ss[s] = OnConnectionAck(@)]
    [] m.type = "complete" ->
         [w EXCEPT !.ss[s].subs = Delete(@, m.key), !.raw = Delete(@, m.key)]
    [] OTHER -> w

\* execMessage by goroutine `who` of session s: OnMessage, then the send of
\* a handler error on errorChan (wrapHandler), then checkSubscriptionStatuses
ExecMessage(s, who, m, ret) ==
  LET w == OnMessage(World, s, m)
  IN  IF m.type = "data" /\ ret # "none"
        THEN Commit([w EXCEPT !.ss[s][who] =
               [@ EXCEPT !.pc = "send", !.val = ret, !.after = "check",
                         !.msg = NoMsg]])
        ELSE Commit(CheckSubscriptionStatuses(
               [w EXCEPT !.ss[s][who] =
                  [@ EXCEPT !.pc = IF who = "rd" THEN "run" ELSE "none",
                            !.msg = NoMsg]], s))

\* a read loop that starts a goroutine for every message
ReadMessageAsync(s, m) ==
  /\ ~panicked
  /\ Reading(s)
  /\ sessions[s].conn
  /\ m \in ServerMessages(s)
  /\ sessions[s].ex.pc = "none"
  /\ sessions' = [sessions EXCEPT ![s].ex = [@ EXCEPT !.pc = "pending", !.msg = m]]
  /\ UNCHANGED <<cfg, clientStatus, rawSubscriptions, currentSession, nSessions,
                 sup, ctx, user, nextKey, panicked, obs, prev, stats>>

\* the read loop reads message m; syncMode dispatches it inline, otherwise
\* `go execMessage()`
ReadMessage(s, m) ==
  /\ ~panicked
  /\ Reading(s)
  /\ sessions[s].conn
  /\ m \in ServerMessages(s)
  /\ IF cfg.syncMode
       THEN \E ret \in HandlerReturns : ExecMessage(s, "rd", m, ret)
       ELSE /\ sessions[s].ex.pc = "none"
            /\ sessions' = [sessions EXCEPT ![s].ex =
                 [@ EXCEPT !.pc = "pending", !.msg = m]]
            /\ UNCHANGED <<clientStatus, rawSubscriptions, ctx>>
  /\ UNCHANGED <<cfg, currentSession, nSessions, sup, user, nextKey, panicked, obs,
                 prev, stats>>

\* the goroutine started by `go execMessage()` runs
AsyncExecMessage(s) ==
  /\ ~panicked
  /\ sessions[s].ex.pc = "pending"
  /\ \E ret \in HandlerReturns : ExecMessage(s, "ex", sessions[s].ex.msg, ret)
  /\ UNCHANGED <<cfg, currentSession, nSessions, sup, user, nextKey, panicked, obs,
                 prev, stats>>

\* execMessage after its send on errorChan was received
ExecMessageCheck(s, who) ==
  /\ ~panicked
  /\ sessions[s][who].pc = "check"
  /\ Commit(CheckSubscriptionStatuses(
       [World EXCEPT !.ss[s][who].pc = IF who = "rd" THEN "run" ELSE "none"], s))
  /\ UNCHANGED <<cfg, currentSession, nSessions, sup, user, nextKey, panicked, obs,
                 prev, stats>>

\* ------------------------------------------------------- Subscribe / Exec
\* doRaw, the part under sc.mutex: mint the id, register, read currentSession
DoRawRegister ==
  /\ ~panicked
  /\ user.pc = "idle"
  /\ nextKey <= MaxSubs
  /\ rawSubscriptions' = Put(rawSubscriptions, nextKey, NewSubscription(nextKey))
  /\ user' = [pc |-> "set", key |-> nextKey, cur |-> currentSession]
  /\ nextKey' = nextKey + 1
  /\ UNCHANGED <<cfg, clientStatus, currentSession, sessions, nSessions, sup,
                 ctx, panicked, obs,
                 prev, stats>>

\* doRaw: currentSession.SetSubscription(id, &sub) when there is a session
DoRawSetSubscription ==
  /\ ~panicked
  /\ user.pc = "set"
  /\ IF user.cur = NilSession
       THEN /\ user' = InitUser
            /\ UNCHANGED sessions
       ELSE /\ sessions' = [sessions EXCEPT ![user.cur].subs =
                 Put(@, user.key, NewSubscription(user.key))]
            /\ user' = [user EXCEPT !.pc = "sub"]
  /\ UNCHANGED <<cfg, clientStatus, rawSubscriptions, currentSession, nSessions,
                 sup, ctx, nextKey, panicked, obs,
                 prev, stats>>

\* doRaw subscribing without looking at the acknowledgement
DoRawSubscribeUnacked(se, sub) ==
  IF clientStatus = scStatusRunning THEN ProtocolSubscribe(se, sub) ELSE se

\* doRaw: the session it read is subscribed at once when the client is
\* running and that session is acknowledged
DoRawSubscribeNow(se, sub) ==
  IF clientStatus = scStatusRunning /\ se.ack
    THEN ProtocolSubscribe(se, sub) ELSE se

DoRawSubscribe ==
  /\ ~panicked
  /\ user.pc = "sub"
  /\ sessions' = [sessions EXCEPT ![user.cur] =
       DoRawSubscribeNow(@, NewSubscription(user.key))]
  /\ user' = InitUser
  /\ UNCHANGED <<cfg, clientStatus, rawSubscriptions, currentSession, nSessions,
                 sup, ctx, nextKey, panicked, obs,
                 prev, stats>>

\* ---------------------------------------------------------- Unsubscribe
\* the nil *Subscription
NoSubscription == [id |-> <<0, 0>>, key |-> 0, status |-> 0 - 1, payload |-> 0]

\* SubscriptionContext.GetSubscription(id) for the id returned by Subscribe:
\* the entry stored under that key, else an entry whose session id is id
SessionGetSubscription(se, k) ==
  IF k \in DOMAIN se.subs THEN se.subs[k]
  ELSE IF \E x \in DOMAIN se.subs : se.subs[x].id = <<k, 0>>
    THEN se.subs[CHOOSE x \in DOMAIN se.subs : se.subs[x].id = <<k, 0>>]
  ELSE NoSubscription

\* SubscriptionClient.GetSubscription(id)
GetSubscription(k) ==
  IF currentSession # NilSession
    THEN SessionGetSubscription(sessions[currentSession], k)
  ELSE IF k \in DOMAIN rawSubscriptions THEN rawSubscriptions[k]
  ELSE NoSubscription

\* Unsubscribe that leaves a Running entry Running
UnsubscribeKeepStatus(se, sub) ==
  IF sub.status = SubscriptionRunning THEN ProtocolUnsubscribe(se, sub) ELSE se

\* Unsubscribe on the session entry it found: the unsubscribe frame when the
\* entry is Running, then the entry is stored back as Unsubscribed
UnsubscribeEntry(se, sub) ==
  LET se1 == IF sub.status = SubscriptionRunning
               THEN ProtocolUnsubscribe(se, sub) ELSE se
  IN  [se1 EXCEPT !.subs = Put(@, sub.key,
                     [sub EXCEPT !.status = SubscriptionUnsubscribed])]

\* an id that Subscribe never returned
UnknownId == 0

\* Unsubscribe: the registry test that always succeeds
RegisteredAlways(k) == TRUE

\* Unsubscribe: `_, ok := sc.rawSubscriptions[id]`
Registered(k) == k \in DOMAIN rawSubscriptions

\* Unsubscribe(id), for an id the caller can hold: any but the id of a
\* Subscribe call that has not returned yet.  currentSession.GetSubscription
\* is called before currentSession is compared with nil: with no session
\* the call dereferences a nil pointer, after the registry entry was deleted.
Unsubscribe(k) ==
  /\ ~panicked
  /\ ~(user.pc # "idle" /\ user.key = k)
  /\ LET cur == currentSession
         sub == IF cur = NilSession THEN NoSubscription
                ELSE SessionGetSubscription(sessions[cur], k)
         call == [key |-> k, ret |-> "nil", cur |-> cur, was |-> sub.status]
         w == [World EXCEPT !.raw = Delete(@, k)]
     IN  IF ~Registered(k) THEN
           /\ obs' = [obs EXCEPT !.unsub =
                        [call EXCEPT !.ret = "ErrSubscriptionNotExists",
                                     !.was = NoSubscription.status]]
           /\ UNCHANGED <<clientStatus, rawSubscriptions, sessions, ctx, panicked>>
         ELSE IF cur = NilSession THEN
           /\ panicked' = TRUE
           /\ obs' = [obs EXCEPT !.unsub = [call EXCEPT !.ret = "panic"]]
           /\ Commit(w)
         ELSE
           /\ UNCHANGED panicked
           /\ obs' = [obs EXCEPT !.unsub = call]
           /\ IF sub = NoSubscription \/ sub.status = SubscriptionUnsubscribed
                THEN Commit(w)
                ELSE Commit(CheckSubscriptionStatuses(
                       [w EXCEPT !.ss[cur] = UnsubscribeEntry(@, sub)], cur))
  /\ UNCHANGED <<cfg, currentSession, nSessions, sup, user, nextKey, prev, stats>>

\* ------------------------------------------------------- Close / cancel
\* SubscriptionClient.Close
Close ==
  /\ ~panicked
  /\ Commit(ClientClose([World EXCEPT !.raw = EmptyMap], currentSession))
  /\ \E f \in Failures :
       obs' = [obs EXCEPT !.closed = Inc(@, MaxCalls),
                          !.closeRet = CloseReturn(World, currentSession, f),
                          !.closeFail = Effective(World, currentSession, f),
                          !.closedKeys = IF sup.pc \in {"idle", "returned"} THEN @
                                         ELSE @ \cup DOMAIN rawSubscriptions]
  /\ UNCHANGED <<cfg, currentSession, nSessions, sup, user, nextKey, panicked,
                 prev, stats>>

\* the caller cancels the context it passed to RunWithContext
CancelContext ==
  /\ ~panicked
  /\ ~ctx.parent
  /\ ctx' = [ctx EXCEPT !.parent = TRUE]
  /\ UNCHANGED <<cfg, clientStatus, rawSubscriptions, currentSession, sessions,
                 nSessions, sup, user, nextKey, panicked, obs,
                 prev, stats>>

\* -------------------------------------------------- connection statistics
Ids == 1..MaxIds

CacheSizes == 0..MaxCache

InCache(st, id) ==
  \E i \in 1..Len(st.closedConnectionIDs) : st.closedConnectionIDs[i] = id

\* AddActiveConnection that forgets the ids added before
StatsAddActiveAlone(st, id) ==
  [st EXCEPT !.activeConnectionIDs = {id}]

\* websocketStats.AddActiveConnection
StatsAddActive(st, id) ==
  [st EXCEPT !.activeConnectionIDs = @ \cup {id}]

\* AddClosedConnection without the scan of the cache
StatsAddClosedNoScan(st, id) ==
  LET del == [st EXCEPT !.activeConnectionIDs = @ \ {id}]
      cache == st.closedConnectionIDs
      size == st.maxClosedConnectionCacheSize
  IN  IF Len(cache) < size
        THEN [del EXCEPT !.totalClosedConnections = @ + 1,
                         !.closedConnectionIDs = Append(cache, id)]
      ELSE IF size = 0
        THEN [del EXCEPT !.totalClosedConnections = @ + 1, !.panicked = TRUE]
      ELSE [del EXCEPT !.totalClosedConnections = @ + 1,
                       !.closedConnectionIDs =
                          [i \in 1..Len(cache) |->
                             IF i < size THEN cache[i + 1]
                             ELSE IF i = size THEN id ELSE cache[i]]]

\* websocketStats.AddClosedConnection: delete the id from the active set;
\* return if it is in the cache; count it; append it when the cache is
\* shorter than the size, else shift the first `size` entries by one and
\* store the id at index size-1, which is out of range when size is 0
StatsAddClosed(st, id) ==
  LET del == [st EXCEPT !.activeConnectionIDs = @ \ {id}]
      cache == st.closedConnectionIDs
      size == st.maxClosedConnectionCacheSize
  IN  IF InCache(st, id) THEN del
      ELSE IF Len(cache) < size
        THEN [del EXCEPT !.totalClosedConnections = @ + 1,
                         !.closedConnectionIDs = Append(cache, id)]
      ELSE IF size = 0
        THEN [del EXCEPT !.totalClosedConnections = @ + 1, !.panicked = TRUE]
      ELSE [del EXCEPT !.totalClosedConnections = @ + 1,
                       !.closedConnectionIDs =
                          [i \in 1..Len(cache) |->
                             IF i < size THEN cache[i + 1]
                             ELSE IF i = size THEN id ELSE cache[i]]]

\* websocketStats.Reset
StatsReset(st) ==
  [st EXCEPT !.activeConnectionIDs = {},
             !.closedConnectionIDs = <<>>,
             !.totalClosedConnections = 0]

\* SetMaxClosedConnectionMetricCacheSize keeping the oldest ids
StatsSetMaxOldest(st, size) ==
  LET cache == st.closedConnectionIDs
      sized == [st EXCEPT !.maxClosedConnectionCacheSize = size]
  IN  IF Len(cache) <= size THEN sized
      ELSE [sized EXCEPT !.closedConnectionIDs = SubSeq(cache, 1, size)]

\* SetMaxClosedConnectionMetricCacheSize(size): newSlice[i] is
\* closedConnectionIDs[startIndex+i] with startIndex = len - size
StatsSetMax(st, size) ==
  LET cache == st.closedConnectionIDs
      sized == [st EXCEPT !.maxClosedConnectionCacheSize = size]
  IN  IF Len(cache) <= size THEN sized
      ELSE [sized EXCEPT !.closedConnectionIDs =
              [i \in 1..size |-> cache[Len(cache) - size + i]]]

\* websocketStats.GetStats, without the list of the active ids
GetStats(st) ==
  [ TotalActiveConnections |-> Cardinality(st.activeConnectionIDs),
    TotalClosedConnections |-> st.totalClosedConnections ]

Called(op, id) == [op |-> op, id |-> id, len |-> Len(stats.closedConnectionIDs)]

AddActiveConnection(id) ==
  /\ ~stats.panicked
  /\ stats.calls.n + stats.calls.m < MaxOps
  /\ stats' = [StatsAddActive(stats, id) EXCEPT
                 !.calls.n = @ + 1,
                 !.calls.added = @ \cup {id},
                 !.calls.last = Called("AddActiveConnection", id)]
  /\ UNCHANGED <<cfg, clientStatus, rawSubscriptions, currentSession, sessions,
                 nSessions, sup, ctx, user, nextKey, panicked, obs, prev>>

AddClosedConnection(id) ==
  /\ ~stats.panicked
  /\ stats.calls.n + stats.calls.m < MaxOps
  /\ stats' = [StatsAddClosed(stats, id) EXCEPT
                 !.calls.m = @ + 1,
                 !.calls.closedArgs = @ \cup {id},
                 !.calls.orderly = @ /\ id \in stats.calls.added,
                 !.calls.last = Called("AddClosedConnection", id)]
  /\ UNCHANGED <<cfg, clientStatus, rawSubscriptions, currentSession, sessions,
                 nSessions, sup, ctx, user, nextKey, panicked, obs, prev>>

ResetWebSocketStats ==
  /\ ~stats.panicked
  /\ stats' = [StatsReset(stats) EXCEPT
                 !.calls = [NoCalls EXCEPT !.last = Called("Reset", 0)]]
  /\ UNCHANGED <<cfg, clientStatus, rawSubscriptions, currentSession, sessions,
                 nSessions, sup, ctx, user, nextKey, panicked, obs, prev>>

SetMaxClosedConnectionMetricCacheSize(size) ==
  /\ ~stats.panicked
  /\ stats' = [StatsSetMax(stats, size) EXCEPT
                 !.calls.last = Called("SetMaxClosedConnectionMetricCacheSize", size)]
  /\ UNCHANGED <<cfg, clientStatus, rawSubscriptions, currentSession, sessions,
                 nSessions, sup, ctx, user, nextKey, panicked, obs, prev>>

\* ----------------------------------------------------------------- Next
AckMsg == [type |-> "ack", key |-> 0]

DataMsgs == {[type |-> "data", key |-> k] : k \in Keys}

CompleteMsgs == {[type |-> "complete", key |-> k] : k \in Keys}

Senders == {"rd", "ex", "ka"}

\* Reconnection scenario: callers subscribe, close and cancel; the server
\* acknowledges, sends data, closes with any status or drops the line;
\* messages are dispatched inline (syncMode); no timeout is configured.
ReconnectConfigs ==
  { c \in Configs : /\ c.syncMode
                    /\ ~c.failWrites
                    /\ ~c.keepAlive
                    /\ ~c.initTimeout
                    /\ ~c.retryTimeout
                    /\ c.retryCodes = <<>> }

Init == InitWith(ReconnectConfigs)

Next ==
  \/ RunWithContext
  \/ InitSessionOk
  \/ SelectCtxDone
  \/ \E s \in SessionIds, who \in Senders : SelectError(s, who)
  \/ \E s \in SessionIds : ReadLoopExit(s)
  \/ \E s \in SessionIds : ReadEOF(s)
  \/ \E s \in SessionIds, c \in CloseStatuses : ReadCloseStatus(s, c)
  \/ \E s \in SessionIds, m \in {AckMsg} \cup DataMsgs : ReadMessage(s, m)
  \/ \E s \in SessionIds, who \in Senders : ExecMessageCheck(s, who)
  \/ DoRawRegister
  \/ DoRawSetSubscription
  \/ DoRawSubscribe
  \/ Close
  \/ CancelContext

Spec == Init /\ [][Next]_vars

\* Timeout scenario: as above, with connectionInitialisationTimeout or
\* retryTimeout (or both) configured.
TimeoutConfigs ==
  { c \in Configs : /\ c.syncMode
                    /\ ~c.failWrites
                    /\ ~c.keepAlive
                    /\ c.initTimeout \/ c.retryTimeout
                    /\ ~c.onError
                    /\ ~c.exitWhenNoSubscription
                    /\ c.retryCodes = <<>> }

InitTimeout == InitWith(TimeoutConfigs)

NextTimeout ==
  \/ Next
  \/ InitSessionTimeout
  \/ SelectInitTimeout

SpecTimeout == InitTimeout /\ [][NextTimeout]_vars

\* every goroutine that can take a step eventually takes one
FairSpecTimeout == SpecTimeout /\ WF_vars(NextTimeout)

\* Retry-code scenario: WithRetryStatusCodes("4400") or ("1000-1006"),
\* an OnError callback is registered.
RetryConfigs ==
  { c \in Configs : /\ c.syncMode
                    /\ ~c.failWrites
                    /\ ~c.keepAlive
                    /\ ~c.initTimeout
                    /\ ~c.retryTimeout
                    /\ c.onError
                    /\ ~c.exitWhenNoSubscription
                    /\ c.retryCodes # <<>> }

InitRetry == InitWith(RetryConfigs)

SpecRetry == InitRetry /\ [][Next]_vars

\* Rerun scenario: Run returns to its caller, who calls it again; no
\* callback is registered and the client does not exit when it has no
\* subscription.
RerunConfigs ==
  { c \in Configs : /\ c.syncMode
                    /\ ~c.failWrites
                    /\ ~c.keepAlive
                    /\ ~c.initTimeout
                    /\ ~c.retryTimeout
                    /\ ~c.onError
                    /\ ~c.exitWhenNoSubscription
                    /\ c.retryCodes = <<>> }

InitRerun == InitWith(RerunConfigs)

NextRerun ==
  \/ Next
  \/ RunReturns

SpecRerun == InitRerun /\ [][NextRerun]_vars

\* Unsubscribe scenario: callers subscribe and unsubscribe; the server
\* acknowledges, completes subscriptions or drops the line; no callback is
\* registered, nobody calls Close or cancels the context.
UnsubscribeConfigs ==
  { c \in Configs : /\ c.syncMode
                    /\ ~c.failWrites
                    /\ ~c.keepAlive
                    /\ ~c.initTimeout
                    /\ ~c.retryTimeout
                    /\ ~c.onError
                    /\ c.retryCodes = <<>> }

InitUnsubscribe == InitWith(UnsubscribeConfigs)

NextUnsubscribe ==
  \/ RunWithContext
  \/ InitSessionOk
  \/ SelectCtxDone
  \/ \E s \in SessionIds, who \in Senders : SelectError(s, who)
  \/ \E s \in SessionIds : ReadLoopExit(s)
  \/ \E s \in SessionIds : ReadEOF(s)
  \/ \E s \in SessionIds, m \in {AckMsg} \cup CompleteMsgs : ReadMessage(s, m)
  \/ DoRawRegister
  \/ DoRawSetSubscription
  \/ DoRawSubscribe
  \/ \E k \in Keys \cup {UnknownId} : Unsubscribe(k)

SpecUnsubscribe == InitUnsubscribe /\ [][NextUnsubscribe]_vars

\* the steps of the goroutine inside RunWithContext
SupervisorStep ==
  \/ InitSessionOk
  \/ SelectCtxDone
  \/ \E s \in SessionIds, who \in Senders : SelectError(s, who)

\* the goroutine inside RunWithContext is scheduled and the server accepts
\* a connection that stays possible
FairSpecUnsubscribe == SpecUnsubscribe /\ WF_vars(SupervisorStep)

\* Reset scenario: while Run is in its select with the client Running,
\* another goroutine calls Run; the server acknowledges or drops the line;
\* nobody calls Close or cancels a context.
InitReset == InitWith(RerunConfigs)

NextReset ==
  \/ RunWithContext
  \/ InitSessionOk
  \/ SelectCtxDone
  \/ \E s \in SessionIds, who \in Senders : SelectError(s, who)
  \/ \E s \in SessionIds : ReadLoopExit(s)
  \/ \E s \in SessionIds : ReadEOF(s)
  \/ \E s \in SessionIds : ReadMessage(s, AckMsg)
  \/ DoRawRegister
  \/ DoRawSetSubscription
  \/ DoRawSubscribe
  \/ RunAgain
  \/ PrevSelectCtxDone
  \/ \E s \in SessionIds, who \in Senders : PrevSelectError(s, who)

SpecReset == InitReset /\ [][NextReset]_vars

\* Statistics scenario: connections are reported opened and closed, the
\* statistics are reset and the size of the cache is changed; calls are
\* made one at a time.
InitStatistics == InitWith(RerunConfigs)

NextStatistics ==
  \/ \E id \in Ids : AddActiveConnection(id)
  \/ \E id \in Ids : AddClosedConnection(id)
  \/ ResetWebSocketStats
  \/ \E size \in CacheSizes : SetMaxClosedConnectionMetricCacheSize(size)

SpecStatistics == InitStatistics /\ [][NextStatistics]_vars

\* Read-error scenario: the server acknowledges, closes with any status or
\* drops the line, the caller cancels the context; with or without an
\* OnError callback and with or without retry status codes; nobody
\* subscribes.
ReadErrorConfigs ==
  { c \in Configs : /\ c.syncMode
                    /\ ~c.failWrites
                    /\ ~c.keepAlive
                    /\ ~c.initTimeout
                    /\ ~c.retryTimeout
                    /\ ~c.exitWhenNoSubscription }

InitReadErrors == InitWith(ReadErrorConfigs)

NextReadErrors ==
  \/ RunWithContext
  \/ InitSessionOk
  \/ SelectCtxDone
  \/ \E s \in SessionIds, who \in Senders : SelectError(s, who)
  \/ \E s \in SessionIds : ReadLoopExit(s)
  \/ \E s \in SessionIds : ReadEOF(s)
  \/ \E s \in SessionIds, c \in CloseStatuses : ReadCloseStatus(s, c)
  \/ \E s \in SessionIds : ReadMessage(s, AckMsg)
  \/ CancelContext

SpecReadErrors == InitReadErrors /\ [][NextReadErrors]_vars

\* the goroutine inside RunWithContext and the read loops are scheduled and
\* the server accepts a connection that stays possible
FairSpecReadErrors ==
  /\ SpecReadErrors
  /\ WF_vars(SupervisorStep)
  /\ \A s \in SessionIds : WF_vars(ReadLoopExit(s))

\* Close-error scenario: the websocket may fail the writes and the close
\* made by close(); callers subscribe, close and cancel; the server
\* acknowledges.
CloseErrorConfigs ==
  { c \in Configs : /\ c.failWrites
                    /\ ~c.keepAlive
                    /\ c.syncMode
                    /\ ~c.initTimeout
                    /\ ~c.retryTimeout
                    /\ ~c.onError
                    /\ ~c.exitWhenNoSubscription
                    /\ c.retryCodes = <<>> }

InitCloseErrors == InitWith(CloseErrorConfigs)

NextCloseErrors ==
  \/ RunWithContext
  \/ InitSessionOk
  \/ SelectCtxDone
  \/ \E s \in SessionIds : ReadLoopExit(s)
  \/ \E s \in SessionIds : ReadMessage(s, AckMsg)
  \/ DoRawRegister
  \/ DoRawSetSubscription
  \/ DoRawSubscribe
  \/ Close
  \/ CancelContext

SpecCloseErrors == InitCloseErrors /\ [][NextCloseErrors]_vars

\* Keep-alive scenario: WithWebSocketKeepAlive is set or not; pings succeed
\* or fail, the server acknowledges or drops the line, the caller cancels
\* the context; an OnError callback is registered or not.
KeepAliveConfigs ==
  { c \in Configs : /\ c.syncMode
                    /\ ~c.failWrites
                    /\ ~c.initTimeout
                    /\ ~c.retryTimeout
                    /\ ~c.exitWhenNoSubscription
                    /\ c.retryCodes = <<>> }

InitKeepAlive == InitWith(KeepAliveConfigs)

NextKeepAlive ==
  \/ RunWithContext
  \/ InitSessionOk
  \/ SelectCtxDone
  \/ \E s \in SessionIds, who \in Senders : SelectError(s, who)
  \/ \E s \in SessionIds, who \in Senders : SelectErrorRefused(s, who)
  \/ \E s \in SessionIds : ReadLoopExit(s)
  \/ \E s \in SessionIds : ReadEOF(s)
  \/ \E s \in SessionIds : ReadMessage(s, AckMsg)
  \/ \E s \in SessionIds : Ping(s)
  \/ \E s \in SessionIds : PingFails(s)
  \/ \E s \in SessionIds : KeepAliveDone(s)
  \/ CancelContext

SpecKeepAlive == InitKeepAlive /\ [][NextKeepAlive]_vars

\* every goroutine that can take a step is scheduled and the server
\* accepts a connection that stays possible
FairSpecKeepAlive ==
  /\ SpecKeepAlive
  /\ WF_vars(SupervisorStep)
  /\ WF_vars(\E s \in SessionIds, who \in Senders : SelectErrorRefused(s, who))
  /\ \A s \in SessionIds : WF_vars(ReadLoopExit(s)) /\ WF_vars(KeepAliveDone(s))

\* Dispatch scenario: WithSyncMode is set or not; callers subscribe, the
\* server acknowledges, sends data or drops the line; handlers succeed or
\* return an error.
DispatchConfigs ==
  { c \in Configs : /\ ~c.failWrites
                    /\ ~c.keepAlive
                    /\ ~c.initTimeout
                    /\ ~c.retryTimeout
                    /\ ~c.onError
                    /\ ~c.exitWhenNoSubscription
                    /\ c.retryCodes = <<>> }

InitDispatch == InitWith(DispatchConfigs)

NextDispatch ==
  \/ RunWithContext
  \/ InitSessionOk
  \/ \E s \in SessionIds, who \in Senders : SelectError(s, who)
  \/ \E s \in SessionIds : ReadLoopExit(s)
  \/ \E s \in SessionIds : ReadEOF(s)
  \/ \E s \in SessionIds, m \in {AckMsg} \cup DataMsgs : ReadMessage(s, m)
  \/ \E s \in SessionIds : AsyncExecMessage(s)
  \/ \E s \in SessionIds, who \in Senders : ExecMessageCheck(s, who)
  \/ DoRawRegister
  \/ DoRawSetSubscription
  \/ DoRawSubscribe

SpecDispatch == InitDispatch /\ [][NextDispatch]_vars

\* Concurrent-start scenario: while Run is connecting its first session,
\* another goroutine calls Run; the server accepts the connections,
\* acknowledges or drops the line; callers subscribe.
InitConcurrentRun == InitWith(RerunConfigs)

NextConcurrentRun ==
  \/ RunWithContext
  \/ RunWhileConnecting
  \/ InitSessionOk
  \/ PrevInitSessionOk
  \/ \E s \in SessionIds, who \in Senders : SelectErrorRefused(s, who)
  \/ \E s \in SessionIds : ReadLoopExit(s)
  \/ \E s \in SessionIds : ReadEOF(s)
  \/ \E s \in SessionIds : ReadMessage(s, AckMsg)
  \/ DoRawRegister
  \/ DoRawSetSubscription
  \/ DoRawSubscribe

SpecConcurrentRun == InitConcurrentRun /\ [][NextConcurrentRun]_vars

TypeOK ==
  /\ cfg \in Configs
  /\ clientStatus \in {scStatusInitializing, scStatusRunning, scStatusClosing}
  /\ DOMAIN rawSubscriptions \subseteq Keys
  /\ currentSession \in 0..MaxSessions
  /\ nSessions \in 0..MaxSessions
  /\ panicked \in BOOLEAN

\* ---------------------------------------------------------------- claims
\* the SubscriptionContexts created so far
Created == 1..nSessions

\* the supervisor replaces the current session after an error
C11_Replaces ==
  /\ sup.pc = "select"
  /\ sup'.pc = "connecting"
  /\ sup'.ev = "retry"
  /\ sup'.newSess = nSessions + 1

\* C11: when the supervisor replaces a session the registry is unchanged
\* and, for every registry entry, the new session map holds under the same
\* key one entry with the same key and payload, status Waiting and a session
\* id different from the id of that entry in every earlier session.
C11_ReconnectClonesRegistry ==
  [][ C11_Replaces =>
        /\ rawSubscriptions' = rawSubscriptions
        /\ DOMAIN sessions'[sup'.newSess].subs = DOMAIN rawSubscriptions
        /\ \A k \in DOMAIN rawSubscriptions :
             LET new == sessions'[sup'.newSess].subs[k]
             IN  /\ new.key = rawSubscriptions[k].key
                 /\ new.payload = rawSubscriptions[k].payload
                 /\ new.status = SubscriptionWaiting
                 /\ \A s \in Created : \A x \in DOMAIN sessions[s].subs :
                      sessions[s].subs[x].id # new.id ]_vars

\* C11 witness: a session whose entry was Running has been replaced and
\* the second session holds a clone of the registry entry
C11_Witness ==
  \E k \in DOMAIN rawSubscriptions :
    /\ sup.ev = "retry"
    /\ sup.pc = "connecting"
    /\ sup.newSess = 2
    /\ k \in DOMAIN sessions[1].subs
    /\ sessions[1].subs[k].status = SubscriptionRunning
    /\ k \in DOMAIN sessions[2].subs
    /\ sessions[2].subs[k].id = <<k, 2>>
    /\ sessions[2].subs[k].status = SubscriptionWaiting

\* C1: a subscription registered while Run is active is present, with a
\* subscribe frame sent, in the session that is running and acknowledged
\* once the Subscribe call has returned; it is never missing from it.
C1_RegisteredInAckedSession ==
  \A k \in DOMAIN rawSubscriptions :
    ( /\ user.pc = "idle"
      /\ clientStatus = scStatusRunning
      /\ currentSession # NilSession
      /\ sessions[currentSession].conn
      /\ sessions[currentSession].ack )
    => /\ k \in DOMAIN sessions[currentSession].subs
       /\ sessions[currentSession].sent[k] >= 1

C3_CancelClosesCurrentSession ==
  (sup.pc = "returned" /\ sup.ev = "ctxDone") =>
    /\ sup.result = "nil"
    /\ ~sessions[currentSession].conn
    /\ sessions[currentSession].disc >= 1

\* C4: when Run returns after Close was called or its context was cancelled
\* while it was connecting or running a session, it returns nil.
C4_ShutdownReturnsNil ==
  [][ ( /\ sup.pc \in {"connecting", "select"}
        /\ CtxDone
        /\ sup'.pc = "returned" )
      => sup'.result = "nil" ]_vars

\* C5: once the supervisor sends the 4408 close error of the init timeout
\* on the error channel, it eventually receives that error and retries with
\* a new session.
C5_InitTimeoutRetries ==
  (sup.pc = "timeout_send") ~>
    (sup.got = ErrInitTimeout /\ sup.ev = "retry" /\ sup.pc = "connecting")

\* C6: when Run returns the error returned by onError, the current session
\* has been closed.
C6_FatalClosesCurrentSession ==
  (sup.pc = "returned" /\ sup.ev = "fatal") =>
    /\ sup.result = "onError"
    /\ ~sessions[currentSession].conn

\* the supervisor receives a non-sentinel error for which onError is not
\* registered or returns nil
C7_Case ==
  /\ sup.pc = "select"
  /\ sup'.pc # "select"
  /\ sup'.ev \in {"retry", "closing"}
  /\ sup'.got \notin {ErrRetry, ErrSubscriptionStopped}
  /\ ~cfg.onError \/ sup'.onErr

\* the supervisor has closed the current session and is creating a new one
C7_Replaced ==
  /\ sup'.pc = "connecting"
  /\ nSessions' = nSessions + 1
  /\ sup'.newSess = nSessions'
  /\ ~sessions'[currentSession].conn
  /\ sup'.result = "none"

\* C7 as stated: whenever the supervisor receives a non-sentinel error and
\* onError is not registered or returns nil, it closes the current session,
\* creates a new one and Run does not return.
C7_Original == [][ C7_Case => C7_Replaced ]_vars

\* C7 amended: the same, when the client is not closing at that moment.
C7_RetryUnlessClosing ==
  [][ (C7_Case /\ clientStatus # scStatusClosing) => C7_Replaced ]_vars

\* C7 witness: a non-sentinel error was received, the session that was
\* current is closed and a second one is being connected
C7_Witness ==
  /\ sup.ev = "retry"
  /\ sup.got = ErrOther
  /\ sup.pc = "connecting"
  /\ sup.newSess = 2
  /\ currentSession = 1
  /\ ~sessions[1].conn
  /\ sessions[1].disc = 1

\* C8: when the supervisor receives ErrSubscriptionStopped, onError is not
\* invoked, Run returns nil and the current session is closed.
C8_StoppedClosesCurrentSession ==
  (sup.pc = "returned" /\ sup.ev = "stopped") =>
    /\ sup.result = "nil"
    /\ ~sup.onErr
    /\ ~sessions[currentSession].conn

\* a read loop that read a close status matching a retry code is sending
\* the retry sentinel
C9_MatchedSendsRetry ==
  \A s \in SessionIds :
    sessions'[s].rd.matched =>
      sessions'[s].rd.pc = "send" /\ sessions'[s].rd.val = ErrRetry

\* the supervisor receives the value sent for a matching close status
C9_Received ==
  \E s \in SessionIds : sessions[s].rd.matched /\ ~sessions'[s].rd.matched

\* C9 as stated: a close whose status matches a configured retry code or
\* range is turned into the retry sentinel whatever the built-in handling
\* of that status is, and on receiving it the supervisor creates a new
\* session without invoking onError.
C9_Original ==
  [][ /\ C9_MatchedSendsRetry
      /\ C9_Received =>
           /\ ~sup'.onErr
           /\ sup'.ev = "retry"
           /\ sup'.pc = "connecting"
           /\ nSessions' = nSessions + 1 ]_vars

\* C9 amended: the same, except that a supervisor that finds the client
\* closing when it receives the sentinel returns nil instead of creating a
\* session; onError is not invoked in either case.
C9_RetryCodePrecedence ==
  [][ /\ C9_MatchedSendsRetry
      /\ C9_Received =>
           /\ ~sup'.onErr
           /\ clientStatus # scStatusClosing =>
                /\ sup'.ev = "retry"
                /\ sup'.pc = "connecting"
                /\ nSessions' = nSessions + 1
           /\ clientStatus = scStatusClosing =>
                /\ sup'.pc = "returned"
                /\ sup'.result = "nil" ]_vars

\* C9 witness: the sentinel of a matching close status was received and a
\* second session is being connected
C9_Witness ==
  /\ sup.gotMatched
  /\ sup.got = ErrRetry
  /\ sup.ev = "retry"
  /\ sup.pc = "connecting"
  /\ sup.newSess = 2
  /\ ~sup.onErr

\* C10: an entry is Running in a session only if the session is
\* acknowledged, and a subscribe frame was sent on a session only if the
\* session is acknowledged.
C10_RunningOnlyIfAcknowledged ==
  \A s \in SessionIds :
    /\ \A k \in DOMAIN sessions[s].subs :
         sessions[s].subs[k].status = SubscriptionRunning => sessions[s].ack
    /\ \A k \in Keys : sessions[s].sent[k] > 0 => sessions[s].ack

\* C10 witness: Subscribe returned while the running session was not yet
\* acknowledged and left its entry Waiting with no frame sent
C10_Witness ==
  \E k \in Keys :
    /\ user.pc = "idle"
    /\ clientStatus = scStatusRunning
    /\ currentSession # NilSession
    /\ ~sessions[currentSession].ack
    /\ k \in DOMAIN sessions[currentSession].subs
    /\ sessions[currentSession].subs[k].id = <<k, 0>>
    /\ sessions[currentSession].subs[k].status = SubscriptionWaiting
    /\ sessions[currentSession].sent[k] = 0

\* C12: when Close was called while Run was active and Run is invoked
\* again, every subscription that was registered when Close was called is
\* in the session of the new Run under its key, with a session id of that
\* session, Waiting until the session is acknowledged and Running after.
C12_CloseThenRunKeepsSubscriptions ==
  \A k \in obs.closedKeys :
    (obs.closed = 0 /\ sup.pc \in {"connecting", "select"}) =>
      LET se == sessions[sup.newSess]
      IN  /\ k \in DOMAIN se.subs
          /\ se.subs[k].id = <<k, sup.newSess>>
          /\ ~se.ack => se.subs[k].status = SubscriptionWaiting
          /\ se.ack => se.subs[k].status = SubscriptionRunning

\* the caller of Run calls it (again)
C13_RunStarts == sup.pc = "idle" /\ sup'.pc = "connecting"

\* C13: after a step of Close the registry is empty and the websocket of
\* the current session is closed; a Run called after Close starts its
\* session with the keys of the registry only, none of which was registered
\* when Close was called.
C13_CloseEmptiesAndCloses ==
  [][ /\ Close =>
           /\ rawSubscriptions' = EmptyMap
           /\ currentSession # NilSession => ~sessions'[currentSession].conn
      /\ (C13_RunStarts /\ obs.closed >= 1) =>
           /\ DOMAIN sessions'[sup'.newSess].subs = DOMAIN rawSubscriptions
           /\ DOMAIN sessions'[sup'.newSess].subs \cap obs.closedKeys = {} ]_vars

C15_Opened(s) == sessions[s].rd.pc # "none"

\* the onDisconnected calls made for the disconnect of session s: those of
\* its Close and those of the retry that followed and never connected
C15_Calls(s) ==
  sessions[s].disc
    + (IF s + 1 \in Created /\ ~C15_Opened(s + 1) THEN sessions[s + 1].disc ELSE 0)

\* C15: for every websocket connection that was opened, onDisconnected is
\* never invoked more than once for its disconnect, and it has been invoked
\* once when the connection is torn down.
C15_OnDisconnectedOncePerDisconnect ==
  \A s \in Created :
    C15_Opened(s) =>
      /\ C15_Calls(s) <= 1
      /\ ~sessions[s].conn => C15_Calls(s) = 1

\* a call of Unsubscribe returns
C16_Returns == obs'.unsub # obs.unsub

\* C16: Unsubscribe(id) with an id that is not in the registry returns
\* ErrSubscriptionNotExists and leaves the registry, every session (maps
\* and frames sent), the client status and the context unchanged.
C16_UnknownIdChangesNothing ==
  [][ (C16_Returns /\ obs'.unsub.key \notin DOMAIN rawSubscriptions) =>
        /\ obs'.unsub.ret = "ErrSubscriptionNotExists"
        /\ rawSubscriptions' = rawSubscriptions
        /\ sessions' = sessions
        /\ clientStatus' = clientStatus
        /\ ctx' = ctx
        /\ ~panicked' ]_vars

\* C16 witness: Unsubscribe of an unknown id has returned the error while a
\* registered subscription is Running in the connected current session
C16_Witness ==
  /\ obs.unsub.ret = "ErrSubscriptionNotExists"
  /\ obs.unsub.key \notin DOMAIN rawSubscriptions
  /\ clientStatus = scStatusRunning
  /\ currentSession # NilSession
  /\ sessions[currentSession].conn
  /\ \E k \in DOMAIN rawSubscriptions :
       /\ k \in DOMAIN sessions[currentSession].subs
       /\ sessions[currentSession].subs[k].status = SubscriptionRunning

\* C17: Unsubscribe(id) of a registered subscription that was never
\* started, because there is no session yet or because its session entry is
\* Waiting, returns nil without failing, sends no unsubscribe frame and
\* removes the entry from the registry.
C17_NeverStartedUnsubscribes ==
  [][ ( /\ C16_Returns
        /\ obs'.unsub.key \in DOMAIN rawSubscriptions
        /\ \/ currentSession = NilSession
           \/ obs'.unsub.was = SubscriptionWaiting ) =>
        /\ obs'.unsub.ret = "nil"
        /\ ~panicked'
        /\ obs'.unsub.key \notin DOMAIN rawSubscriptions'
        /\ \A s \in SessionIds : sessions'[s].stops = sessions[s].stops ]_vars

\* C18: once Unsubscribe(id) has returned for an id returned by Subscribe,
\* GetSubscription(id) returns nil.
C18_UnsubscribedIsAbsent ==
  obs.unsub.ret = "nil" =>
    GetSubscription(obs.unsub.key) = NoSubscription

\* C19: Unsubscribe(id) of a subscription that is Running in the current
\* session removes it from the registry, sends one unsubscribe frame (when
\* the session has a websocket) and leaves the session entry Unsubscribed
\* (or removed by the close of the client); no session after that one
\* holds the subscription.
C19_RunningUnsubscribes ==
  /\ [][ (C16_Returns /\ obs'.unsub.was = SubscriptionRunning) =>
           LET k == obs'.unsub.key
               c == obs'.unsub.cur
           IN  /\ obs'.unsub.ret = "nil"
               /\ k \notin DOMAIN rawSubscriptions'
               /\ sessions[c].conn =>
                    sessions'[c].stops[k] = sessions[c].stops[k] + 1
               /\ k \in DOMAIN sessions'[c].subs =>
                    sessions'[c].subs[k].status = SubscriptionUnsubscribed ]_vars
  /\ [](obs.unsub.was = SubscriptionRunning =>
          \A s \in Created :
            s > obs.unsub.cur => obs.unsub.key \notin DOMAIN sessions[s].subs)

\* Run is active and the last registered subscription has been completed
\* by the server or unsubscribed while its session entry was Waiting or
\* Running
C20_LastRemoved ==
  /\ cfg.exitWhenNoSubscription
  /\ sup.pc \in {"connecting", "select"}
  /\ nextKey > 1
  /\ user.pc = "idle"
  /\ DOMAIN rawSubscriptions = {}
  /\ \/ obs.unsub.ret = "none"
     \/ obs.unsub.was \in {SubscriptionWaiting, SubscriptionRunning}

\* C20: with exitWhenNoSubscription, once the last subscription has been
\* unsubscribed or completed while Run is active, Run eventually returns
\* nil (unless a new subscription is registered in the meantime).
C20_ExitWhenNoSubscription ==
  C20_LastRemoved ~>
    \/ sup.pc = "returned" /\ sup.result = "nil"
    \/ DOMAIN rawSubscriptions # {}

\* the step of a Run called while an earlier Run is active
C21_Resets == prev.pc = "none" /\ prev'.pc = "select"

\* the step in which the earlier Run returns
C21_EarlierReturns == prev.pc # "returned" /\ prev'.pc = "returned"

\* C21: a Run called while an earlier Run is active closes every earlier
\* session and prepares a new session holding every registered
\* subscription; the earlier Run returns nil and its return leaves the
\* context, the client status and the sessions of the later Run as they
\* are; with nobody closing or cancelling, the later Run does not return.
C21_RunAgainResets ==
  /\ [][ C21_Resets =>
           /\ \A s \in Created : ~sessions'[s].conn
           /\ DOMAIN sessions'[sup'.newSess].subs = DOMAIN rawSubscriptions'
           /\ rawSubscriptions' = rawSubscriptions ]_vars
  /\ [][ C21_EarlierReturns =>
           /\ prev'.result = "nil"
           /\ ctx' = ctx
           /\ clientStatus' = clientStatus
           /\ \A s \in SessionIds : s # prev.subContext =>
                /\ sessions'[s].conn = sessions[s].conn
                /\ sessions'[s].cancelled = sessions[s].cancelled ]_vars
  /\ [](prev.pc # "none" => sup.pc # "returned")
\* C22: a Run called while the client is running returns an error to its
\* caller: it has returned when the call is over and its result is an error.
C22_RunWhileRunningFails ==
  [][ C21_Resets =>
        /\ sup'.pc = "returned"
        /\ sup'.result \notin {"none", "nil"} ]_vars
\* C23: the startup of a session (Run inside SubscriptionContext.init) ends
\* only by a successful connection or, when retryTimeout > 0, by giving up:
\* then onDisconnected is called once and Run returns the retry-timeout
\* error.  With retryTimeout = 0 the startup never gives up.
C23_StartupGivesUpOnlyAfterRetryTimeout ==
  [][ (sup.pc = "connecting" /\ sup'.pc # "connecting") =>
        \/ /\ sup'.pc = "select"
           /\ sessions'[sup.newSess].conn
        \/ /\ cfg.retryTimeout
           /\ sup'.pc = "returned"
           /\ sup'.result = "retryTimeout"
           /\ sessions'[sup.newSess].disc = sessions[sup.newSess].disc + 1
           /\ ~sessions'[sup.newSess].conn ]_vars

\* C23 witness: with retryTimeout > 0 the startup of a session after a
\* reconnection has given up, onDisconnected was called for it and Run
\* has returned the error
C23_Witness ==
  /\ cfg.retryTimeout
  /\ sup.pc = "returned"
  /\ sup.result = "retryTimeout"
  /\ sup.newSess = 2
  /\ sessions[2].disc = 1
  /\ ~sessions[2].conn
\* C24: once RunWithContext has returned through `case <-ctx.Done()`
\* after a session was established, currentSession is nil.
C24_CurrentSessionNilAfterShutdown ==
  (sup.pc = "returned" /\ sup.ev = "ctxDone" /\ ctx.parent)
    => currentSession = NilSession
\* every call since the last Reset was made with an id of its own
C25_AllUnique ==
  /\ Cardinality(stats.calls.added) = stats.calls.n
  /\ Cardinality(stats.calls.closedArgs) = stats.calls.m
  /\ stats.calls.added \cap stats.calls.closedArgs = {}

\* no id was passed twice to AddActiveConnection nor twice to
\* AddClosedConnection since the last Reset
C25_UniquePerCall ==
  /\ Cardinality(stats.calls.added) = stats.calls.n
  /\ Cardinality(stats.calls.closedArgs) = stats.calls.m

C26_Newest(cache, k) == [i \in 1..k |-> cache[Len(cache) - k + i]]

\* C26: SetMaxClosedConnectionMetricCacheSize(k) with k smaller than the
\* length of the cache leaves exactly the k most recently closed ids, in
\* their order, and leaves both totals of GetStats unchanged.
C26_ShrinkKeepsNewest ==
  [][ \A k \in CacheSizes :
        ( /\ SetMaxClosedConnectionMetricCacheSize(k)
          /\ k < Len(stats.closedConnectionIDs) ) =>
            /\ stats'.closedConnectionIDs = C26_Newest(stats.closedConnectionIDs, k)
            /\ stats'.maxClosedConnectionCacheSize = k
            /\ GetStats(stats') = GetStats(stats) ]_vars

\* C26 witness: a cache of three ids was shrunk to size 2 and holds the
\* two ids closed last, in the order in which they were closed
C26_Witness ==
  /\ stats.calls.last.op = "SetMaxClosedConnectionMetricCacheSize"
  /\ stats.calls.last.id = 2
  /\ stats.calls.last.len = 3
  /\ stats.closedConnectionIDs = <<1, 3>>
  /\ stats.totalClosedConnections = 3
  /\ stats.calls.m = 3
  /\ stats.activeConnectionIDs # {}
\* C27: AddClosedConnection(id) with an id that is in the cache removes the
\* id from the active set and changes nothing else; so a connection closed
\* twice in a row is counted once.
C27_DuplicateCloseCountsOnce ==
  [][ \A id \in Ids :
        AddClosedConnection(id) =>
          /\ InCache(stats, id) =>
               /\ stats'.activeConnectionIDs = stats.activeConnectionIDs \ {id}
               /\ stats'.closedConnectionIDs = stats.closedConnectionIDs
               /\ stats'.totalClosedConnections = stats.totalClosedConnections
               /\ stats'.maxClosedConnectionCacheSize =
                    stats.maxClosedConnectionCacheSize
               /\ ~stats'.panicked
          /\ ( /\ stats.calls.last.op = "AddClosedConnection"
               /\ stats.calls.last.id = id ) =>
               stats'.totalClosedConnections = stats.totalClosedConnections
    ]_vars

\* C27 witness: an active connection was closed twice in a row and is
\* counted once
C27_Witness ==
  /\ stats.calls.last.op = "AddClosedConnection"
  /\ stats.calls.closedArgs = {stats.calls.last.id}
  /\ stats.calls.last.id \in stats.calls.added
  /\ stats.calls.m = 2
  /\ stats.totalClosedConnections = 1
  /\ stats.closedConnectionIDs = <<stats.calls.last.id>>
  /\ stats.activeConnectionIDs = {}
\* C28: the cache is never longer than maxClosedConnectionCacheSize, and
\* an AddClosedConnection of an id that is not in a full cache completes,
\* drops the oldest id, keeps the others in their order and stores the new
\* id last.
C28_CacheBoundedFifo ==
  /\ [](Len(stats.closedConnectionIDs) <= stats.maxClosedConnectionCacheSize)
  /\ [][ \A id \in Ids :
           ( /\ AddClosedConnection(id)
             /\ ~InCache(stats, id)
             /\ Len(stats.closedConnectionIDs) =
                  stats.maxClosedConnectionCacheSize ) =>
               LET old == stats.closedConnectionIDs
                   new == stats'.closedConnectionIDs
               IN  /\ ~stats'.panicked
                   /\ Len(new) = Len(old)
                   /\ \A i \in 1..(Len(old) - 1) : new[i] = old[i + 1]
                   /\ Len(old) >= 1 => new[Len(old)] = id ]_vars
\* the read loop of session s is blocked sending e and will end afterwards
C29_Sends(s, e) ==
  /\ sessions'[s].rd.pc = "send"
  /\ sessions'[s].rd.val = e
  /\ sessions'[s].rd.after = "exit"
  /\ sessions'[s].cancelled = sessions[s].cancelled

\* the read loop of session s has ended without sending
C29_Ends(s) ==
  /\ sessions'[s].rd.pc = "done"
  /\ sessions'[s].rd.val = "none"

\* a step that changes nothing but the read loop of session s and whether
\* that session is cancelled
C29_ReadLoopStep(s) ==
  /\ Reading(s)
  /\ sessions' # sessions
  /\ sessions' = [sessions EXCEPT ![s].rd = sessions'[s].rd,
                                  ![s].cancelled = sessions'[s].cancelled]
  /\ UNCHANGED <<sup, user, ctx, clientStatus, rawSubscriptions>>

C30_CloseAggregatesErrors ==
  [][ (Close /\ TearsDown(World, currentSession)) =>
        ( obs'.closeRet = "Error" <=>
            \/ obs'.closeFail.unsub
            \/ obs'.closeFail.proto
            \/ obs'.closeFail.close ) ]_vars

\* C40: no AddClosedConnection call indexes the cache out of range,
\* whatever size SetMaxClosedConnectionMetricCacheSize was given (0
\* included) and whenever it was given (a full cache included).
C40_AddClosedStaysInRange ==
  [][ \A id \in Ids : AddClosedConnection(id) => ~stats'.panicked ]_vars

\* session s was established: its init succeeded and its read loop started
C33_Established(s) == sessions[s].rd.pc # "none"

\* the supervisor received what the keep-alive goroutine of session s sent
\* and went on to a new session
C33_Retried(s) ==
  /\ SelectError(s, "ka")
  /\ clientStatus # scStatusClosing

\* C33: with a keep-alive interval every established session has its one
\* keep-alive goroutine and without an interval no session has one and no
\* ping is made; a failed ping sends errRetry; when the supervisor receives
\* it while the client is not closing it starts a new session without
\* calling onError and the goroutine ends; a keep-alive goroutine whose
\* session is cancelled eventually ends, unless the supervisor is held in a
\* connection attempt that the server refuses.
C33_KeepAliveGoroutine ==
  /\ [](\A s \in SessionIds :
         /\ sessions[s].ka.pc # "none" <=> (cfg.keepAlive /\ C33_Established(s))
         /\ ~cfg.keepAlive => sessions[s].pings = 0)
  /\ [][ \A s \in SessionIds :
           /\ PingFails(s) => /\ sessions'[s].ka.pc = "send"
                              /\ sessions'[s].ka.val = ErrRetry
           /\ C33_Retried(s) => /\ sup'.pc = "connecting"
                                /\ nSessions' = nSessions + 1
                                /\ sup'.newSess = nSessions'
                                /\ ~sup'.onErr
                                /\ sessions'[s].ka.pc = "done" ]_vars
  /\ \A s \in SessionIds :
       (sessions[s].ka.pc \in {"run", "send"} /\ SessionDone(s))
         ~> (sessions[s].ka.pc = "done" \/ sup.pc = "refused")

\* C37: a goroutine that is sending on errorChan eventually completes the
\* send, unless the supervisor is held in a connection attempt that the
\* server refuses.
C37_NoSenderBlockedForever ==
  \A s \in SessionIds, who \in Senders :
    Sending(s, who) ~> (~Sending(s, who) \/ sup.pc = "refused")

\* the supervisor receives what goroutine `who` of session s sent
C36_Receives(s, who) == SelectError(s, who) \/ SelectErrorRefused(s, who)

\* C36: when the supervisor receives an error sent by a goroutine of a
\* session that is no longer the current one, while the client is running
\* on an open current session, that session stays open and the client
\* stays running.
C36_StaleErrorIgnored ==
  [][ \A s \in SessionIds, who \in Senders :
        ( /\ C36_Receives(s, who)
          /\ currentSession # NilSession
          /\ s # currentSession
          /\ clientStatus = scStatusRunning
          /\ sessions[currentSession].conn ) =>
            ( /\ sessions'[currentSession].conn
              /\ clientStatus' = scStatusRunning ) ]_vars

\* the supervisor is in its select over a current session whose read loop
\* has ended, the client is not closing and n sessions were created
C35_ReaderGone(n) ==
  /\ sup.pc = "select"
  /\ clientStatus # scStatusClosing
  /\ currentSession # NilSession
  /\ sessions[currentSession].rd.pc = "done"
  /\ nSessions = n

\* C35: when the read loop of the current session has ended while the
\* client is not closing, the supervisor eventually creates a new session
\* or Run returns.
C35_SupervisorReactsToEndedReadLoop ==
  \A n \in 1..(MaxSessions - 1) :
    C35_ReaderGone(n) ~> (sup.pc = "returned" \/ nSessions > n)

\* the client starts closing in this step
C34_StartsClosing ==
  clientStatus # scStatusClosing /\ clientStatus' = scStatusClosing

\* a subscription leaves the registry in this step (Unsubscribe, complete)
C34_Removes ==
  \E k \in DOMAIN rawSubscriptions : k \notin DOMAIN rawSubscriptions'

\* C34: with exitWhenNoSubscription the client starts closing for lack of
\* subscriptions only in a step that removes a subscription; the dispatch
\* of a connection_ack never closes it.
C34_ClosesOnlyAfterRemoval ==
  [][ /\ (cfg.exitWhenNoSubscription /\ C34_StartsClosing) => C34_Removes
      /\ \A s \in SessionIds :
           ReadMessage(s, AckMsg) => ~C34_StartsClosing ]_vars

\* C38: on no session is more than one subscribe frame written for a
\* subscription.
C38_OneSubscribeFramePerSession ==
  \A s \in SessionIds, k \in Keys : sessions[s].sent[k] <= 1

\* C39: an entry of a session is Running only if a subscribe frame for it
\* was written on the websocket of that session.
C39_RunningOnlyIfFrameWritten ==
  \A s \in SessionIds : \A k \in DOMAIN sessions[s].subs :
    sessions[s].subs[k].status = SubscriptionRunning => sessions[s].sent[k] >= 1

\* a dispatch of session s is under way: execMessage was started and has
\* not returned from checkSubscriptionStatuses
C31_Dispatching(s) ==
  \/ sessions[s].ex.pc # "none"
  \/ sessions[s].rd.pc = "check"
  \/ sessions[s].rd.pc = "send" /\ sessions[s].rd.after = "check"

\* a ReadJSON call of the read loop of session s returns in this step
C31_Reads(s) ==
  \/ \E m \in {AckMsg} \cup DataMsgs : ReadMessage(s, m)
  \/ ReadEOF(s)

\* C31: with syncMode the read loop of a session reads only while no
\* dispatch of that session is under way, and the message it reads is
\* dispatched by the read loop itself before anything else is read: no
\* dispatch goroutine is started, a connection_ack is handled in the step
\* that reads it, and the read loop is back at its read only after the
\* handler and the check of the subscriptions have returned.
C31_SyncModeDispatchesInOrder ==
  [][ \A s \in SessionIds :
        cfg.syncMode =>
          /\ C31_Reads(s) => ~C31_Dispatching(s)
          /\ \A m \in {AckMsg} \cup DataMsgs :
               ReadMessage(s, m) =>
                 /\ sessions'[s].ex.pc = "none"
                 /\ m = AckMsg => sessions'[s].ack
                 /\ Reading(s)' \/ C31_Dispatching(s)' ]_vars

\* with syncMode the read loop of an acknowledged session is inside a
\* dispatch: the error its handler returned was received and the check of
\* the subscriptions is still to come
C31_Witness ==
  /\ cfg.syncMode
  /\ \E s \in SessionIds :
       /\ sessions[s].ack
       /\ sessions[s].rd.pc = "check"
       /\ \E k \in Keys : sessions[s].sent[k] >= 1

\* C32: at most one session holds an open websocket.
C32_OneOpenWebsocket ==
  Cardinality({s \in SessionIds : sessions[s].conn}) <= 1

====
